---- MODULE Spec2Model ----
(***************************************************************************)
(* Role manager bot (src/bot.py): a tracked role is recorded in the table  *)
(* pending_roles when it is granted, the record is dropped when the role   *)
(* is taken away by hand, and a periodic task revokes the role once the    *)
(* record is older than HOURS_UNTIL_REMOVAL hours.                         *)
(*                                                                         *)
(* Time is counted in ticks, Grain ticks to the hour.  A datetime is the   *)
(* number of ticks since the model's epoch; its ISO text is the zero       *)
(* padded hour count, then ".f" when the sub-hour part f is not zero       *)
(* (datetime.isoformat leaves ".ffffff" out when microsecond is 0), then   *)
(* the "+" of the UTC offset.  Texts are sequences of character codes and  *)
(* are compared the way SQLite compares TEXT: byte by byte.                *)
(***************************************************************************)
EXTENDS Integers, Sequences, FiniteSets, TLC

\* ---------------------------------------------------------------- bounds
MaxMembers == 2     \* members (a user in a guild) the gateway reports on
MaxReady == 2       \* deliveries of the gateway's "ready" event
Grain == 2          \* ticks per hour (the sub-hour digit is 0..Grain-1)
Width == 2          \* digits of the zero padded hour count

\* ------------------------------------------------------ program constants
ROLE_ID_TO_TRACK == 1       \* an identifier; the real one is a snowflake
HOURS_UNTIL_REMOVAL == 24

OtherRole == ROLE_ID_TO_TRACK + 1

\* Member k: user 1 in guilds 1 and 2, then user 2 in guilds 1 and 2, ...
Members ==
    {[user |-> (k + 1) \div 2, guild |-> 2 - (k % 2)] : k \in 1..MaxMembers}

Cogs == 1..MaxReady

UNKNOWN == "system/unknown"
None == <<>>

\* The instants the wall clock is sampled at: the process starts, one tick
\* later, HOURS_UNTIL_REMOVAL hours after the start, one tick after that.
StartTime == Grain * HOURS_UNTIL_REMOVAL
Instants ==
    {StartTime + d : d \in {0, 1}}
        \cup {StartTime + Grain * HOURS_UNTIL_REMOVAL + d : d \in {0, 1}}

VARIABLES
    clock,          \* datetime.now(timezone.utc), in ticks
    pending_roles,  \* the table, in rowid order
    pc,             \* per RoleManagerCog instance: where its sweep task is
    expired,        \* per instance: the snapshot check_expired_roles iterates
                    \* (the key columns; the loop reads no other column)
    idx,            \* per instance: position in the snapshot
    processed,      \* per instance: local counter of check_expired_roles
    errors,         \* per instance: local counter of check_expired_roles
    last            \* what the last step did (log line and remote calls)

vars == <<clock, pending_roles, pc, expired, idx, processed, errors, last>>

\* ------------------------------------------------------------- datetimes
\* datetime.isoformat(): fixed width fields, optional fraction, offset.
isoformat(t) ==
    [i \in 1..Width |-> 48 + (((t \div Grain) \div (10 ^ (Width - i))) % 10)]
        \o (IF t % Grain = 0 THEN <<>> ELSE <<46, 48 + (t % Grain)>>)
        \o <<43>>

\* datetime.fromisoformat(): the inverse reading of the text.
fromisoformat(s) ==
    LET RECURSIVE Hours(_)
        Hours(i) == IF i = 0 THEN 0 ELSE 10 * Hours(i - 1) + (s[i] - 48)
    IN Grain * Hours(Width)
        + (IF s[Width + 1] = 46 THEN s[Width + 2] - 48 ELSE 0)

\* datetime - timedelta(hours=hours)
minus_hours(t, hours) == t - Grain * hours

\* SQLite's "<" on two TEXT values (BINARY collation: memcmp, then length).
TextLess(a, b) ==
    LET n == IF Len(a) < Len(b) THEN Len(a) ELSE Len(b)
    IN \/ \E i \in 1..n : a[i] < b[i] /\ \A j \in 1..(i - 1) : a[j] = b[j]
       \/ Len(a) < Len(b) /\ \A j \in 1..n : a[j] = b[j]

\* ------------------------------------------------------------- Database
Row(u, g, r, at, by) ==
    [user_id |-> u, guild_id |-> g, role_id |-> r,
     assigned_at |-> at, assigned_by |-> by]

SameKey(row, u, g, r) ==
    row.user_id = u /\ row.guild_id = g /\ row.role_id = r

\* DELETE FROM pending_roles WHERE user_id = ?: the rows of the user in
\* every guild.
delete_where_user(db, u, g, r) == SelectSeq(db, LAMBDA row : row.user_id # u)

\* DELETE FROM pending_roles WHERE user_id = ? AND guild_id = ? AND role_id = ?
delete_where(db, u, g, r) == SelectSeq(db, LAMBDA row : ~SameKey(row, u, g, r))

\* add_role written with INSERT OR IGNORE: a row that holds the key is kept.
add_role_ignore(db, u, g, r, by, now) ==
    IF \E i \in 1..Len(db) : SameKey(db[i], u, g, r)
    THEN db
    ELSE Append(db, Row(u, g, r, isoformat(now), by))

\* Database.add_role: INSERT OR REPLACE drops the row that holds the primary
\* key, if any, and inserts the new row (with a new rowid, at the end).
add_role(db, u, g, r, by, now) ==
    Append(delete_where(db, u, g, r), Row(u, g, r, isoformat(now), by))

\* remove_role_record without conn.commit(): the DELETE is rolled back.
remove_role_record_no_commit(db, u, g, r) == db

\* Database.remove_role_record: the table afterwards.
remove_role_record(db, u, g, r) == delete_where(db, u, g, r)

\* remove_role_record returning the size of the table, not the rowcount.
removed_count_total(db, u, g, r) == Len(db)

\* Database.remove_role_record: its return value, cursor.rowcount.
removed_count(db, u, g, r) == Len(db) - Len(delete_where(db, u, g, r))

\* get_expired_roles without the timedelta: everything granted before now.
get_expired_roles_no_delta(db, hours, now) ==
    SelectSeq(db, LAMBDA row : TextLess(row.assigned_at, isoformat(now)))

\* Database.get_expired_roles
get_expired_roles(db, hours, now) ==
    LET expiry_time == isoformat(minus_hours(now, hours))
    IN SelectSeq(db, LAMBDA row : TextLess(row.assigned_at, expiry_time))

\* get_all_pending written with MAX(assigned_at).
get_all_pending_newest(db) ==
    [count |-> Len(db),
     oldest |-> IF Len(db) = 0 THEN None ELSE db[Len(db)].assigned_at]

\* Database.get_all_pending: SELECT COUNT(*), MIN(assigned_at)
get_all_pending(db) ==
    [count |-> Len(db),
     oldest |->
        IF Len(db) = 0 THEN None
        ELSE LET i == CHOOSE i \in 1..Len(db) :
                        \A j \in 1..Len(db) :
                            ~TextLess(db[j].assigned_at, db[i].assigned_at)
             IN db[i].assigned_at]

\* clear_db: DELETE FROM pending_roles
delete_all(db) == <<>>

\* init_db written with DROP TABLE before CREATE TABLE: the rows are lost.
init_db_recreate(db) == <<>>

\* Database.init_db on a file that holds the table already:
\* CREATE TABLE IF NOT EXISTS leaves the table and its rows as they are.
init_db(db) == db

\* A write that raised after it reached the file: it is there all the same.
committed_anyway(io, db, written) == written

\* Every method of Database runs in "try: ... except Exception:".  io is how
\* the method's sqlite3 calls end: "ok", or "fail" when one of them raises.
\* A write that raised is not committed: the table stays as it was.
committed(io, db, written) == IF io = "ok" THEN written ELSE db

\* The value a method returns: the one of its try block, or the one of its
\* except block (None for add_role, 0 for remove_role_record, [] for
\* get_expired_roles, (0, None) for get_all_pending).
returned(io, value, fallback) == IF io = "ok" THEN value ELSE fallback

\* status: the age of the oldest record, "{hours}ч {minutes}м назад".
age(oldest, now) ==
    LET delta == now - fromisoformat(oldest)
    IN <<delta \div Grain, ((delta % Grain) * 60) \div Grain>>

\* ------------------------------------------------------------- the steps
Step(op, cog, u, g, res, n) ==
    [op |-> op, cog |-> cog, user |-> u, guild |-> g, res |-> res, n |-> n,
     io |-> "ok", oldest |-> None, age |-> None, delta |-> None]

Running(c) == pc[c] \in {"loop", "await_remove", "await_send"}

\* All handlers are coroutines of one event loop: a coroutine gives way to
\* the others only at an await.  While check_expired_roles runs from one
\* await to the next (pc "loop") nothing else runs.
Busy == \E c \in Cogs : pc[c] = "loop"
Down == pc[1] = "down"
CogLoaded == pc[1] \notin {"off", "down"}

Init ==
    /\ clock = StartTime
    /\ pending_roles = <<>>
    /\ pc = [c \in Cogs |-> "off"]
    /\ expired = [c \in Cogs |-> <<>>]
    /\ idx = [c \in Cogs |-> 0]
    /\ processed = [c \in Cogs |-> 0]
    /\ errors = [c \in Cogs |-> 0]
    /\ last = Step("init", 0, 0, 0, "", 0)

\* The wall clock moves on.
Tick ==
    /\ ~Busy
    /\ \E t \in Instants : t > clock /\ clock' = t
    /\ last' = Step("tick", 0, 0, 0, "", 0)
    /\ UNCHANGED <<pending_roles, pc, expired, idx, processed, errors>>

\* bot.add_cog: a cog of the same name that is already loaded is refused.
add_cog(loaded) == IF loaded THEN "already_loaded" ELSE "cog_added"

\* main.on_ready: RoleManagerCog(bot, db) is constructed, and its __init__
\* starts the instance's check_expired_roles loop, before bot.add_cog runs.
\* The gateway delivers "ready" again whenever it opens a new session.
on_ready(c) ==
    /\ ~Busy
    /\ pc[c] = "off"
    /\ \A d \in 1..(c - 1) : pc[d] \notin {"off", "down"}
    /\ pc' = [pc EXCEPT ![c] = "idle"]
    /\ last' = Step("on_ready", c, 0, 0, add_cog(CogLoaded), 0)
    /\ UNCHANGED <<clock, pending_roles, expired, idx, processed, errors>>

\* The audit log lookup of on_member_update: the name of who granted the
\* role, or the default when no entry matches or the lookup fails.
AuditOutcomes == {"found", "none", "forbidden", "error"}

\* A lookup that leaves the name empty when it finds none.
Assigner_no_default(audit) == IF audit = "found" THEN "moderator" ELSE ""

Assigner(audit) == IF audit = "found" THEN "moderator" ELSE UNKNOWN

\* "a role was added", whichever role it is.
role_added_any(before_roles, after_roles) == after_roles \ before_roles # {}

\* on_member_update: "the role was added" and "the role was taken away".
role_added(before_roles, after_roles) ==
    ROLE_ID_TO_TRACK \in after_roles /\ ROLE_ID_TO_TRACK \notin before_roles

role_removed(before_roles, after_roles) ==
    ROLE_ID_TO_TRACK \in before_roles /\ ROLE_ID_TO_TRACK \notin after_roles

\* RoleManagerCog.on_member_update, a listener of the loaded cog.
\* What a member update says about the tracked role: whether it is among the
\* roles that came (after minus before) or went (before minus after).
delta(before_roles, after_roles) ==
    [added |-> (after_roles \ before_roles) \cap {ROLE_ID_TO_TRACK},
     removed |-> (before_roles \ after_roles) \cap {ROLE_ID_TO_TRACK}]

\* audit is how the audit log lookup ends and io how the store call ends;
\* neither is looked at when the tracked role was not added or taken away.
on_member_update(u, g, before_roles, after_roles, audit, io) ==
    /\ CogLoaded
    /\ ~Busy
    /\ IF role_added(before_roles, after_roles)
       THEN /\ pending_roles' =
                    committed(io, pending_roles,
                              add_role(pending_roles, u, g, ROLE_ID_TO_TRACK,
                                       Assigner(audit), clock))
            /\ last' = [Step("role_added", 0, u, g, Assigner(audit),
                             returned(io, removed_count(pending_roles, u, g,
                                                        ROLE_ID_TO_TRACK), 0))
                            EXCEPT !.io = io,
                                   !.delta = delta(before_roles, after_roles)]
       ELSE IF role_removed(before_roles, after_roles)
       THEN /\ pending_roles' =
                    committed(io, pending_roles,
                              remove_role_record(pending_roles, u, g,
                                                 ROLE_ID_TO_TRACK))
            /\ last' = [Step("role_removed", 0, u, g, "",
                             returned(io, removed_count(pending_roles, u, g,
                                                        ROLE_ID_TO_TRACK), 0))
                            EXCEPT !.io = io,
                                   !.delta = delta(before_roles, after_roles)]
       ELSE /\ pending_roles' = pending_roles
            /\ last' = [Step("role_other", 0, 0, 0, "", 0)
                            EXCEPT !.delta = delta(before_roles, after_roles)]
    /\ UNCHANGED <<clock, pc, expired, idx, processed, errors>>

\* The role changes the gateway reports: the tracked role granted or taken
\* away, alone or together with a change of another role, and changes of
\* another role only.
RoleChanges ==
    { <<{}, {ROLE_ID_TO_TRACK}>>,
      <<{OtherRole}, {ROLE_ID_TO_TRACK}>>,
      <<{ROLE_ID_TO_TRACK}, {}>>,
      <<{ROLE_ID_TO_TRACK}, {OtherRole}>>,
      <<{ROLE_ID_TO_TRACK}, {ROLE_ID_TO_TRACK, OtherRole}>>,
      <<{OtherRole}, {}>> }

\* The audit log is read only when the tracked role was added.
Lookups(change) ==
    IF role_added(change[1], change[2]) THEN AuditOutcomes ELSE {"none"}

MemberUpdate ==
    \E m \in Members, change \in RoleChanges :
        \E audit \in Lookups(change) :
            on_member_update(m.user, m.guild, change[1], change[2], audit, "ok")

\* check_expired_roles, from the timer firing to the first row: the snapshot
\* is taken; with nothing expired the cycle returns at once.
Key(row) == <<row.user_id, row.guild_id, row.role_id>>

Snapshot(rows) == [i \in 1..Len(rows) |-> Key(rows[i])]

SweepStart(c, io) ==
    /\ pc[c] = "idle"
    /\ ~Busy
    /\ LET rows == returned(io, get_expired_roles(pending_roles,
                                                  HOURS_UNTIL_REMOVAL, clock),
                            <<>>)
       IN IF Len(rows) = 0
          THEN /\ last' = [Step("sweep_none", c, 0, 0, "", 0) EXCEPT !.io = io]
               /\ UNCHANGED <<pc, expired, idx>>
          ELSE /\ pc' = [pc EXCEPT ![c] = "loop"]
               /\ expired' = [expired EXCEPT ![c] = Snapshot(rows)]
               /\ idx' = [idx EXCEPT ![c] = 1]
               /\ last' = Step("sweep_start", c, 0, 0, "", Len(rows))
    /\ processed' = [processed EXCEPT ![c] = 0]
    /\ errors' = [errors EXCEPT ![c] = 0]
    /\ UNCHANGED <<clock, pending_roles>>

\* A loop without the per-row handlers: the first exception ends the cycle.
Advance_abort(c, p, e) ==
    IF idx[c] < Len(expired[c]) /\ e = errors[c]
    THEN /\ idx' = [idx EXCEPT ![c] = idx[c] + 1]
         /\ pc' = [pc EXCEPT ![c] = "loop"]
         /\ processed' = [processed EXCEPT ![c] = p]
         /\ errors' = [errors EXCEPT ![c] = e]
         /\ expired' = expired
    ELSE /\ idx' = [idx EXCEPT ![c] = 0]
         /\ pc' = [pc EXCEPT ![c] = "idle"]
         /\ processed' = [processed EXCEPT ![c] = 0]
         /\ errors' = [errors EXCEPT ![c] = 0]
         /\ expired' = [expired EXCEPT ![c] = <<>>]

\* A task that an exception of a row ends: no later row, no later cycle.
Advance_dead(c, p, e) ==
    IF e = errors[c]
    THEN Advance_abort(c, p, e)
    ELSE /\ idx' = [idx EXCEPT ![c] = 0]
         /\ pc' = [pc EXCEPT ![c] = "dead"]
         /\ processed' = [processed EXCEPT ![c] = 0]
         /\ errors' = [errors EXCEPT ![c] = 0]
         /\ expired' = [expired EXCEPT ![c] = <<>>]

\* The for loop moves to the next row of the snapshot; after the last row
\* the cycle logs its summary, its locals are gone and the task sleeps until
\* the next firing.  p and e are the counters as the row leaves them.
Advance(c, p, e) ==
    IF idx[c] < Len(expired[c])
    THEN /\ idx' = [idx EXCEPT ![c] = idx[c] + 1]
         /\ pc' = [pc EXCEPT ![c] = "loop"]
         /\ processed' = [processed EXCEPT ![c] = p]
         /\ errors' = [errors EXCEPT ![c] = e]
         /\ expired' = expired
    ELSE /\ idx' = [idx EXCEPT ![c] = 0]
         /\ pc' = [pc EXCEPT ![c] = "idle"]
         /\ processed' = [processed EXCEPT ![c] = 0]
         /\ errors' = [errors EXCEPT ![c] = 0]
         /\ expired' = [expired EXCEPT ![c] = <<>>]

\* A row handler that deletes the record where the code keeps it.
row_dropped(db, u, g, r) == remove_role_record(db, u, g, r)

\* A row handler that keeps the record where the code deletes it.
row_kept(db, u, g, r) == db

\* What one row of the loop leaves in the table, by the way the row ends:
\* guild, member or role not found: the record is deleted
row_dangling(db, u, g, r) == remove_role_record(db, u, g, r)

\* the role is not below the bot's top role: "continue", the record stays
row_hierarchy(db, u, g, r) == db

\* member.remove_roles succeeded: the record is deleted
row_revoked(db, u, g, r) == remove_role_record(db, u, g, r)

\* except discord.Forbidden: the record stays
row_forbidden(db, u, g, r) == db

\* except Exception: the record stays
row_exception(db, u, g, r) == db

\* One row of the loop, up to the first await: guild, member and role are
\* looked up, the role hierarchy is checked, member.remove_roles is called.
ProcessRow(c, found, io) ==
    /\ pc[c] = "loop"
    /\ LET u == expired[c][idx[c]][1]
           g == expired[c][idx[c]][2]
           r == expired[c][idx[c]][3]
       IN IF found \in {"no_guild", "no_member", "no_role"}
          THEN /\ pending_roles' =
                    committed(io, pending_roles,
                              row_dangling(pending_roles, u, g, r))
               /\ Advance(c, processed[c], errors[c])
               /\ last' = [Step("row_dangling", c, u, g, found,
                                returned(io, removed_count(pending_roles,
                                                           u, g, r), 0))
                                EXCEPT !.io = io]
          ELSE IF found = "role_too_high"
          THEN /\ pending_roles' = row_hierarchy(pending_roles, u, g, r)
               /\ Advance(c, processed[c], errors[c])
               /\ last' = Step("row_hierarchy", c, u, g, found, 0)
          ELSE /\ pending_roles' = pending_roles
               /\ pc' = [pc EXCEPT ![c] = "await_remove"]
               /\ last' = Step("remove_roles_call", c, u, g, found, 0)
               /\ UNCHANGED <<expired, idx, processed, errors>>
    /\ UNCHANGED clock

\* A return that takes a delete which found no row for a failure of the row.
RemoveRolesReturn_strict(c, result, io) ==
    /\ pc[c] = "await_remove"
    /\ ~Busy
    /\ LET u == expired[c][idx[c]][1]
           g == expired[c][idx[c]][2]
           r == expired[c][idx[c]][3]
       IN IF result = "ok" /\ removed_count(pending_roles, u, g, r) # 0
          THEN /\ pending_roles' =
                    committed(io, pending_roles,
                              row_revoked(pending_roles, u, g, r))
               /\ processed' = [processed EXCEPT ![c] = processed[c] + 1]
               /\ pc' = [pc EXCEPT ![c] = "await_send"]
               /\ last' = [Step("send_call", c, u, g, result,
                                returned(io, removed_count(pending_roles,
                                                           u, g, r), 0))
                                EXCEPT !.io = io]
               /\ UNCHANGED <<expired, idx, errors>>
          ELSE /\ pending_roles' = pending_roles
               /\ Advance(c, processed[c], errors[c] + 1)
               /\ last' = Step("remove_roles_failed", c, u, g, result, 0)
    /\ UNCHANGED clock

\* member.remove_roles comes back: with success the record is deleted and the
\* direct message is sent; discord.Forbidden and any other exception are
\* caught by the row's handlers.
RemoveRolesReturn(c, result, io) ==
    /\ pc[c] = "await_remove"
    /\ ~Busy
    /\ LET u == expired[c][idx[c]][1]
           g == expired[c][idx[c]][2]
           r == expired[c][idx[c]][3]
       IN IF result = "ok"
          THEN /\ pending_roles' =
                    committed(io, pending_roles,
                              row_revoked(pending_roles, u, g, r))
               /\ processed' = [processed EXCEPT ![c] = processed[c] + 1]
               /\ pc' = [pc EXCEPT ![c] = "await_send"]
               /\ last' = [Step("send_call", c, u, g, result,
                                returned(io, removed_count(pending_roles,
                                                           u, g, r), 0))
                                EXCEPT !.io = io]
               /\ UNCHANGED <<expired, idx, errors>>
          ELSE /\ pending_roles' =
                    IF result = "forbidden"
                    THEN row_forbidden(pending_roles, u, g, r)
                    ELSE row_exception(pending_roles, u, g, r)
               /\ Advance(c, processed[c], errors[c] + 1)
               /\ last' = Step("remove_roles_failed", c, u, g, result, 0)
    /\ UNCHANGED clock

\* member.send comes back: Forbidden and HTTPException are swallowed next to
\* the call, anything else reaches the row's "except Exception".
SendReturn(c, result) ==
    /\ pc[c] = "await_send"
    /\ ~Busy
    /\ Advance(c, processed[c],
               IF result = "error" THEN errors[c] + 1 ELSE errors[c])
    /\ last' = Step("send_return", c, expired[c][idx[c]][1],
                    expired[c][idx[c]][2], result, 0)
    /\ UNCHANGED <<clock, pending_roles>>

\* main.on_command_error: what the invoker is told when a command raised.
\* MissingPermissions comes from commands.has_permissions(administrator=True),
\* any other exception of a command body arrives as CommandInvokeError.
on_command_error(error) ==
    IF error = "MissingPermissions" THEN "rejected" ELSE "internal_error"

\* RoleManagerCog.clear_db, behind commands.has_permissions(administrator=
\* True).  The body has no try block: a failing store call raises.
clear_db(is_admin, io) ==
    /\ CogLoaded
    /\ ~Busy
    /\ IF is_admin /\ io = "ok"
       THEN /\ pending_roles' = delete_all(pending_roles)
            /\ last' = Step("clear", 0, 0, 0, "cleared", Len(pending_roles))
       ELSE /\ pending_roles' = pending_roles
            /\ last' = [Step("clear", 0, 0, 0,
                             on_command_error(IF is_admin
                                              THEN "CommandInvokeError"
                                              ELSE "MissingPermissions"), 0)
                            EXCEPT !.io = IF is_admin THEN io ELSE "ok"]
    /\ UNCHANGED <<clock, pc, expired, idx, processed, errors>>

\* RoleManagerCog.status, behind commands.has_permissions(administrator=True):
\* the embed shows the count, and the age of the oldest record when there is
\* one.
status(is_admin, io) ==
    /\ CogLoaded
    /\ ~Busy
    /\ IF is_admin
       THEN LET stats == returned(io, get_all_pending(pending_roles),
                                  [count |-> 0, oldest |-> None])
            IN last' = [Step("status", 0, 0, 0, "embed", stats.count)
                            EXCEPT !.io = io,
                                   !.oldest = stats.oldest,
                                   !.age = IF stats.oldest # None
                                                /\ stats.count > 0
                                           THEN age(stats.oldest, clock)
                                           ELSE None]
       ELSE last' = Step("status", 0, 0, 0,
                         on_command_error("MissingPermissions"), 0)
    /\ UNCHANGED <<clock, pending_roles, pc, expired, idx, processed, errors>>

\* main.ping, a command of the bot itself: no permission check.
ping(is_admin) ==
    /\ ~Down
    /\ ~Busy
    /\ last' = Step("ping", 0, 0, 0, "pong", 0)
    /\ UNCHANGED <<clock, pending_roles, pc, expired, idx, processed, errors>>

\* The process stops (it is killed, or the host goes down): tasks and
\* locals are gone, the file roles.db stays.
Stop ==
    /\ ~Down
    /\ pc' = [c \in Cogs |-> IF c = 1 THEN "down" ELSE "off"]
    /\ expired' = [c \in Cogs |-> <<>>]
    /\ idx' = [c \in Cogs |-> 0]
    /\ processed' = [c \in Cogs |-> 0]
    /\ errors' = [c \in Cogs |-> 0]
    /\ last' = Step("stop", 0, 0, 0, "", 0)
    /\ UNCHANGED <<clock, pending_roles>>

\* main: the process is started again, at a later time; Database() runs
\* init_db on the file the stopped process left.  n is the number of records
\* that have reached their due time while the process was down.
main ==
    /\ Down
    /\ \E t \in Instants : t > clock /\ clock' = t
    /\ pending_roles' = init_db(pending_roles)
    /\ pc' = [pc EXCEPT ![1] = "off"]
    /\ last' = Step("main", 0, 0, 0, "",
                    Cardinality({i \in 1..Len(pending_roles) :
                        fromisoformat(pending_roles[i].assigned_at)
                            + Grain * HOURS_UNTIL_REMOVAL <= clock}))
    /\ UNCHANGED <<expired, idx, processed, errors>>

Sweep == \E c \in Cogs : SweepStart(c, "ok")

Row1 ==
    \E c \in Cogs,
       found \in {"no_guild", "no_member", "no_role", "role_too_high", "ok"} :
        ProcessRow(c, found, "ok")

Row2 == \E c \in Cogs, result \in {"ok", "forbidden", "error"} :
            RemoveRolesReturn(c, result, "ok")

Row3 == \E c \in Cogs, result \in {"ok", "http_error", "error"} :
            SendReturn(c, result)

Clear == \E is_admin \in BOOLEAN : clear_db(is_admin, "ok")

Status == \E is_admin \in BOOLEAN : status(is_admin, "ok")

Ping == \E is_admin \in BOOLEAN : ping(is_admin)

Ready == on_ready(1)

Reconnect == \E c \in Cogs \ {1} : on_ready(c)

Next ==
    \/ Tick
    \/ Ready
    \/ MemberUpdate
    \/ Sweep
    \/ Row1
    \/ Row2
    \/ Row3
    \/ Clear
    \/ Stop
    \/ main

\* The process with one gateway session.  The commands that only read,
\* status and ping, are part of SpecCommands below.
Spec == Init /\ [][Next]_vars


\* The process when the gateway opens further sessions.
NextReconnect == Next \/ Reconnect

SpecReconnect == Init /\ [][NextReconnect]_vars

\* The process while it runs.  tasks.loop calls check_expired_roles again
\* every CHECK_INTERVAL_MINUTES minutes once the last call has returned, the
\* event loop runs a coroutine that is ready, and an awaited call to the
\* gateway comes back, with its result or with an exception.
\* The sweeper reads no assigned_by: the member updates of this
\* specification are the ones whose audit log lookup finds no entry.
MemberUpdateUnattributed ==
    \E m \in Members, change \in RoleChanges :
        on_member_update(m.user, m.guild, change[1], change[2], "none", "ok")

NextRunning ==
    \/ Tick
    \/ Ready
    \/ MemberUpdateUnattributed
    \/ Sweep
    \/ Row1
    \/ Row2
    \/ Row3
    \/ Clear

SpecRunning ==
    /\ Init
    /\ [][NextRunning]_vars
    /\ WF_vars(Sweep)
    /\ WF_vars(Row1)
    /\ WF_vars(Row2)
    /\ WF_vars(Row3)

\* The running process with every operator command.
NextCommands == NextRunning \/ Status \/ Ping

SpecCommands == Init /\ [][NextCommands]_vars

\* The store calls that raise (the file is locked, the disk is full, ...).
MemberUpdateFault ==
    \E m \in Members, change \in RoleChanges :
        /\ role_added(change[1], change[2]) \/ role_removed(change[1], change[2])
        /\ on_member_update(m.user, m.guild, change[1], change[2], "none", "fail")

SweepFault == \E c \in Cogs : SweepStart(c, "fail")

Row1Fault ==
    \E c \in Cogs, found \in {"no_guild", "no_member", "no_role"} :
        ProcessRow(c, found, "fail")

Row2Fault == \E c \in Cogs : RemoveRolesReturn(c, "ok", "fail")

ClearFault == clear_db(TRUE, "fail")

StatusFault == status(TRUE, "fail")

NextStoreFault ==
    \/ NextRunning
    \/ MemberUpdateFault
    \/ SweepFault
    \/ Row1Fault
    \/ Row2Fault
    \/ ClearFault
    \/ StatusFault

\* The running process on a store whose calls may fail at any time after
\* startup.
SpecStoreFault == Init /\ [][NextStoreFault]_vars

\* ------------------------------------------------------------ properties
RowsOf(db, u, g, r) == {i \in 1..Len(db) : SameKey(db[i], u, g, r)}

HasRow(db, u, g, r) == RowsOf(db, u, g, r) # {}

KeysOf(rows) == {Key(rows[i]) : i \in 1..Len(rows)}

\* The keys of the snapshot a sweep is walking.
SnapshotKeys(c) == {expired[c][i] : i \in 1..Len(expired[c])}

\* The due time of a record: its grant time plus the expiry duration.
Due(row) == fromisoformat(row.assigned_at) + Grain * HOURS_UNTIL_REMOVAL

Deadline == StartTime + Grain * HOURS_UNTIL_REMOVAL

\* C1: the table never holds two rows with the same (user_id, guild_id,
\* role_id), whatever store operations ran; and right after add_role for a
\* key there is exactly one row for that key, stamped with the time of that
\* call (a re-grant replaces the row and restarts its clock).
C1_Uniqueness ==
    /\ \A i, j \in 1..Len(pending_roles) :
            Key(pending_roles[i]) = Key(pending_roles[j]) => i = j
    /\ last.op = "role_added" =>
            /\ Cardinality(RowsOf(pending_roles, last.user, last.guild,
                                  ROLE_ID_TO_TRACK)) = 1
            /\ \A i \in RowsOf(pending_roles, last.user, last.guild,
                              ROLE_ID_TO_TRACK) :
                    /\ fromisoformat(pending_roles[i].assigned_at) = clock
                    /\ pending_roles[i].assigned_at = isoformat(clock)

\* A re-grant at a later time has replaced a row, next to another row.
C1_Witness ==
    /\ last.op = "role_added"
    /\ last.n = 1
    /\ clock >= Deadline
    /\ Len(pending_roles) = 2

\* C2: the snapshot a sweep takes at time T holds exactly the rows granted
\* at or before T - HOURS_UNTIL_REMOVAL, the row granted exactly
\* HOURS_UNTIL_REMOVAL hours before T included.
C2_ExpiredAtOrBefore ==
    last.op \in {"sweep_start", "sweep_none"} =>
        SnapshotKeys(last.cog) =
            {Key(pending_roles[i]) :
                i \in {j \in 1..Len(pending_roles) : Due(pending_roles[j]) <= clock}}

\* The keys a sweep at time t would find expired in table db.
ExpiredKeys(db, t) == KeysOf(get_expired_roles(db, HOURS_UNTIL_REMOVAL, t))

C4_PrivilegeDeniedRetention ==
    [][(\/ last'.op = "row_hierarchy"
        \/ last'.op = "remove_roles_failed" /\ last'.res = "forbidden")
            => /\ pending_roles' = pending_roles
               /\ \A t \in Instants :
                    t >= clock =>
                        ExpiredKeys(pending_roles, clock)
                            \subseteq ExpiredKeys(pending_roles', t)]_vars

\* The revoke was forbidden and the expired row is still in the table.
C4_Witness ==
    /\ last.op = "remove_roles_failed"
    /\ last.res = "forbidden"
    /\ <<last.user, last.guild, ROLE_ID_TO_TRACK>>
            \in ExpiredKeys(pending_roles, clock)

\* C5: when member.remove_roles fails for another reason than privilege the
\* sweeper leaves the table as it is, so the row is in the snapshot of every
\* later sweep; nothing counts the retries.
C5_TransientRetention ==
    [][(last'.op = "remove_roles_failed" /\ last'.res = "error")
            => /\ pending_roles' = pending_roles
               /\ \A t \in Instants :
                    t >= clock =>
                        ExpiredKeys(pending_roles, clock)
                            \subseteq ExpiredKeys(pending_roles', t)]_vars

\* The revoke failed with another error and the expired row is still there.
C5_Witness ==
    /\ last.op = "remove_roles_failed"
    /\ last.res = "error"
    /\ <<last.user, last.guild, ROLE_ID_TO_TRACK>>
            \in ExpiredKeys(pending_roles, clock)

\* C6: when the guild, the member or the role of an expired row is not
\* found, the sweeper deletes that row (and no other) and goes on to the next
\* row without calling member.remove_roles or member.send.
C6_DanglingCleanup ==
    [][last'.op = "row_dangling"
            => /\ last'.res \in {"no_guild", "no_member", "no_role"}
               /\ pending_roles' =
                    delete_where(pending_roles, last'.user, last'.guild,
                                 ROLE_ID_TO_TRACK)
               /\ ~HasRow(pending_roles', last'.user, last'.guild,
                          ROLE_ID_TO_TRACK)
               /\ pc[last'.cog] = "loop"
               /\ pc'[last'.cog] \in {"loop", "idle"}]_vars

\* A row whose member is gone has been deleted by the sweeper.
C6_Witness ==
    /\ last.op = "row_dangling"
    /\ last.res = "no_member"
    /\ last.n = 1

\* C7: an exception in one row does not end the cycle: the cycle ends only
\* after the last row of its snapshot, the snapshot is walked row by row as
\* long as the process lives, and after a row that raised the loop stands at
\* the next row.
C7_FaultIsolation ==
    [][\A c \in Cogs :
        /\ (Running(c) /\ pc'[c] = "idle") => idx[c] = Len(expired[c])
        /\ (Running(c) /\ Running(c)') =>
                /\ expired'[c] = expired[c]
                /\ idx'[c] \in {idx[c], idx[c] + 1}
        /\ (/\ last'.cog = c
            /\ \/ last'.op = "remove_roles_failed"
               \/ last'.op = "send_return" /\ last'.res = "error"
            /\ idx[c] < Len(expired[c]))
                => pc'[c] = "loop" /\ idx'[c] = idx[c] + 1]_vars

\* The first row raised and was kept; the second row has been revoked and
\* deleted in the same cycle.
C7_Witness ==
    \E c \in Cogs :
        /\ idx[c] = 2
        /\ errors[c] = 1
        /\ processed[c] = 1
        /\ pc[c] = "await_send"
        /\ HasRow(pending_roles, expired[c][1][1], expired[c][1][2],
                  expired[c][1][3])
        /\ ~HasRow(pending_roles, expired[c][2][1], expired[c][2][2],
                   expired[c][2][3])

C9_IdempotentDelete ==
    /\ [](\A m \in Members :
            LET once == remove_role_record(pending_roles, m.user, m.guild,
                                           ROLE_ID_TO_TRACK)
            IN /\ HasRow(pending_roles, m.user, m.guild, ROLE_ID_TO_TRACK) =>
                    /\ removed_count(pending_roles, m.user, m.guild,
                                     ROLE_ID_TO_TRACK) # 0
                    /\ ~HasRow(once, m.user, m.guild, ROLE_ID_TO_TRACK)
               /\ ~HasRow(pending_roles, m.user, m.guild, ROLE_ID_TO_TRACK) =>
                    /\ removed_count(pending_roles, m.user, m.guild,
                                     ROLE_ID_TO_TRACK) = 0
                    /\ once = pending_roles
               /\ removed_count(once, m.user, m.guild, ROLE_ID_TO_TRACK) = 0
               /\ remove_role_record(once, m.user, m.guild, ROLE_ID_TO_TRACK)
                    = once)
    /\ [][(/\ last.op = "role_removed"
           /\ last'.op = "role_removed"
           /\ last.user = last'.user
           /\ last.guild = last'.guild)
                => last'.n = 0 /\ pending_roles' = pending_roles]_vars

\* The delete ran on a key that has no row, next to the row of another key,
\* and returned 0.
C9_Witness ==
    /\ last.op = "role_removed"
    /\ last.n = 0
    /\ Len(pending_roles) = 1

\* C10: no two executions of check_expired_roles are in progress at once.
C10_NoConcurrentSweeps == Cardinality({c \in Cogs : Running(c)}) <= 1

\* C11: a command (status, clear, ping) sent by a member who is not an
\* administrator is not executed: the member is told so, the table stays as
\* it is and the bot goes on as before.
C11_AdministratorOnly ==
    [][(\/ status(FALSE, "ok")
        \/ clear_db(FALSE, "ok")
        \/ ping(FALSE))
            => /\ last'.res = "rejected"
               /\ UNCHANGED <<pending_roles, pc, expired, idx, processed,
                              errors>>]_vars

\* The keys of the rows of db that have reached their due time at time t.
DueKeys(db, t) == {Key(db[i]) : i \in {j \in 1..Len(db) : Due(db[j]) <= t}}

\* C12: stopping the process, the time it is down and starting it again
\* (init_db on the same file) leave the table as it is, rows and assigned_at;
\* and every row that has reached its due time while the process was down is
\* returned by get_expired_roles from the restart on, the snapshot of a sweep
\* being what get_expired_roles returns for the table at that time.
C12_RestartPersistence ==
    /\ [](last.op \in {"sweep_start", "sweep_none"} =>
            SnapshotKeys(last.cog) = ExpiredKeys(pending_roles, clock))
    /\ [][/\ (Down \/ Down') => pending_roles' = pending_roles
          /\ last'.op = "main" =>
                /\ Down /\ ~Down'
                /\ last'.n = Cardinality(DueKeys(pending_roles, clock))
                /\ \A t \in Instants :
                        t >= clock' =>
                            DueKeys(pending_roles, clock)
                                \subseteq ExpiredKeys(pending_roles', t)]_vars

\* The process has been started again on a table that holds a row whose due
\* time came while the process was down.
C12_Witness ==
    /\ last.op = "main"
    /\ last.n >= 1
    /\ \E i \in 1..Len(pending_roles) :
            /\ Due(pending_roles[i]) = Deadline
            /\ Key(pending_roles[i]) \in ExpiredKeys(pending_roles, clock)

\* C13: a member update in which the tracked role is neither among the roles
\* added (after minus before) nor among the roles removed (before minus
\* after) changes nothing, whatever other roles came or went: the table and
\* the sweeper stay as they are and no audit log is read; and a member update
\* that adds the tracked role makes one write, the upsert of the row of
\* (member, guild, tracked role): the table afterwards is the table before
\* without that key's row, followed by the one new row.
C13_ObserverNoOpFrame ==
    [][last'.op \in {"role_added", "role_removed", "role_other"}
            => /\ UNCHANGED <<clock, pc, expired, idx, processed, errors>>
               /\ (/\ ROLE_ID_TO_TRACK \notin last'.delta.added
                   /\ ROLE_ID_TO_TRACK \notin last'.delta.removed)
                        => /\ pending_roles' = pending_roles
                           /\ last'.op = "role_other"
                           /\ last'.res = ""
               /\ ROLE_ID_TO_TRACK \in last'.delta.added
                        => \E by \in {"moderator", UNKNOWN} :
                            pending_roles' =
                                SelectSeq(pending_roles,
                                          LAMBDA row :
                                            Key(row) # <<last'.user, last'.guild,
                                                         ROLE_ID_TO_TRACK>>)
                                    \o <<Row(last'.user, last'.guild,
                                             ROLE_ID_TO_TRACK,
                                             isoformat(clock), by)>>]_vars

\* A member update about another role only came in, later than the grant
\* that is on record.
C13_Witness ==
    /\ last.op = "role_other"
    /\ \E i \in 1..Len(pending_roles) :
            fromisoformat(pending_roles[i].assigned_at) < clock

\* The sweeper works on the row of member m: it looks up guild, member and
\* role and, when they are found and the role is low enough, calls
\* member.remove_roles.
Attempted(m) ==
    /\ last.op \in {"remove_roles_call", "row_dangling", "row_hierarchy"}
    /\ last.user = m.user
    /\ last.guild = m.guild

\* C14: an error in a row does not stop the sweeper: after a failed
\* member.remove_roles a next cycle starts, and the row that was kept is
\* attempted again unless a manual revoke, a clear or a new grant has taken
\* the expired row away before; every cycle takes the rows that are expired
\* into its snapshot, and the cycle in which member.remove_roles succeeds
\* for the row leaves the table without it.
C14_RetryUntilSuccess ==
    /\ \A m \in Members :
            (/\ last.op = "remove_roles_failed"
             /\ last.user = m.user
             /\ last.guild = m.guild)
                ~> \/ Attempted(m)
                   \/ <<m.user, m.guild, ROLE_ID_TO_TRACK>>
                            \notin ExpiredKeys(pending_roles, clock)
    /\ (last.op = "remove_roles_failed")
            ~> (last.op \in {"sweep_start", "sweep_none"})
    /\ [](last.op \in {"sweep_start", "sweep_none"} =>
            ExpiredKeys(pending_roles, clock) = SnapshotKeys(last.cog))
    /\ [][last'.op = "send_call" =>
            ~HasRow(pending_roles', last'.user, last'.guild,
                    ROLE_ID_TO_TRACK)]_vars

\* member.remove_roles has failed on the last row of a cycle: the row is
\* kept, still expired, and the task is back to waiting for its next cycle.
C14_Witness ==
    /\ last.op = "remove_roles_failed"
    /\ pc[last.cog] = "idle"
    /\ <<last.user, last.guild, ROLE_ID_TO_TRACK>>
            \in ExpiredKeys(pending_roles, clock)
    /\ Len(pending_roles) = 2

\* C15: a store call that raises after startup leaves the table as it is and
\* its caller goes on: remove_role_record has returned 0 (in the observer, for
\* a dangling row and after a revoke), get_expired_roles has returned no row
\* and the cycle ends as one with nothing expired, get_all_pending has
\* returned count 0 and no oldest record and status answers with them; the
\* observer and the command leave the sweeper alone, the loop goes to its
\* next row, the revoked member is still counted and sent the message, and
\* the process is not stopped.
C15_StoreFailureNoEffect ==
    [][last'.io = "fail" =>
        /\ pending_roles' = pending_roles
        /\ ~Down'
        /\ last'.op \in {"role_added", "role_removed", "status", "clear"} =>
                UNCHANGED <<clock, pc, expired, idx, processed, errors>>
        /\ last'.op \in {"role_removed", "row_dangling", "send_call",
                         "status"} => last'.n = 0
        /\ last'.op = "status" => last'.res = "embed" /\ last'.oldest = None
        /\ last'.op = "sweep_none" =>
                /\ pc[last'.cog] = "idle"
                /\ pc'[last'.cog] = "idle"
                /\ expired'[last'.cog] = <<>>
        /\ last'.op = "row_dangling" =>
                /\ pc'[last'.cog] \in {"loop", "idle"}
                /\ pc'[last'.cog] = "loop" =>
                        idx'[last'.cog] = idx[last'.cog] + 1
                /\ pc'[last'.cog] = "idle" =>
                        idx[last'.cog] = Len(expired[last'.cog])
        /\ last'.op = "send_call" =>
                /\ pc'[last'.cog] = "await_send"
                /\ processed'[last'.cog] = processed[last'.cog] + 1
        /\ last'.op \in {"role_added", "role_removed", "status", "clear",
                         "sweep_none", "row_dangling", "send_call"}]_vars

\* member.remove_roles has succeeded and the delete that follows has raised:
\* the row of the revoked member is still in the table.
C15_Witness ==
    /\ last.op = "send_call"
    /\ last.io = "fail"
    /\ HasRow(pending_roles, last.user, last.guild, ROLE_ID_TO_TRACK)
    /\ pc[last.cog] = "await_send"

\* C16: when the tracked role is added the observer writes the row of
\* (member, guild, tracked role), one row, stamped with the time of the
\* notification and attributed to what the audit log lookup gave; when the
\* lookup finds no matching entry, is forbidden or fails otherwise, that is
\* the unknown default; and the observer neither calls member.remove_roles
\* nor member.send (the sweeper stays as it is).
C16_AttributionFailure ==
    [][last'.op = "role_added" =>
        /\ \E i \in 1..Len(pending_roles') :
                pending_roles'[i] =
                    Row(last'.user, last'.guild, ROLE_ID_TO_TRACK,
                        isoformat(clock), last'.res)
        /\ Cardinality(RowsOf(pending_roles', last'.user, last'.guild,
                              ROLE_ID_TO_TRACK)) = 1
        /\ \A audit \in {"none", "forbidden", "error"} :
                last'.res = Assigner(audit) => last'.res = UNKNOWN
        /\ last'.res \in {Assigner(audit) : audit \in AuditOutcomes}
        /\ UNCHANGED <<clock, pc, expired, idx, processed, errors>>]_vars

\* A grant whose lookup found nobody has replaced the row of a grant that a
\* moderator was named for.
C16_Witness ==
    /\ last.op = "role_added"
    /\ last.res = UNKNOWN
    /\ last.n = 1
    /\ \E i \in 1..Len(pending_roles) : pending_roles[i].assigned_by = "moderator"
    /\ \E i \in RowsOf(pending_roles, last.user, last.guild, ROLE_ID_TO_TRACK) :
            pending_roles[i].assigned_by = UNKNOWN

\* C17: the status command changes nothing but what it answers: the table,
\* the clock and the sweeper stay as they are; the answer shows the number of
\* rows and, when there are rows, the age of the earliest grant on record
\* (no row was granted before it), in whole hours and minutes; on an empty
\* table it shows 0 and no oldest record, without an error.
C17_StatusReadOnly ==
    [][last'.op = "status" =>
        /\ UNCHANGED <<clock, pending_roles, pc, expired, idx, processed,
                       errors>>
        /\ last'.res \in {"embed", "rejected"}
        /\ last'.res = "embed" =>
            /\ last'.n = Len(pending_roles)
            /\ pending_roles = <<>> =>
                    /\ last'.n = 0
                    /\ last'.oldest = None
                    /\ last'.age = None
            /\ pending_roles # <<>> =>
                    /\ \E i \in 1..Len(pending_roles) :
                            last'.oldest = pending_roles[i].assigned_at
                    /\ \A j \in 1..Len(pending_roles) :
                            fromisoformat(last'.oldest)
                                <= fromisoformat(pending_roles[j].assigned_at)
                    /\ last'.age[1] * 60 + last'.age[2] =
                            ((clock - fromisoformat(last'.oldest)) * 60)
                                \div Grain
                    /\ last'.age[2] \in 0..59]_vars

\* status has answered on a table of two rows granted at different times,
\* the older one more than HOURS_UNTIL_REMOVAL hours ago.
C17_Witness ==
    /\ last.op = "status"
    /\ last.res = "embed"
    /\ last.n = 2
    /\ pending_roles[1].assigned_at # pending_roles[2].assigned_at
    /\ last.age[1] >= HOURS_UNTIL_REMOVAL
    /\ last.age[2] > 0

\* The rows of db whose key is not <<u, g, ROLE_ID_TO_TRACK>>, in their order.
OtherRows(db, u, g) ==
    SelectSeq(db, LAMBDA row : Key(row) # <<u, g, ROLE_ID_TO_TRACK>>)

\* C18: a member update and a step of the sweeper on a row change at most
\* the row of the key they handle (the member of the notification, the row
\* the loop stands at): the rows of all other keys stay as they are, in their
\* order; every other step but the clear command leaves the whole table as
\* it is; so two or more rows go in one step only by the clear command of an
\* administrator, which empties the table and reports the number of rows it
\* removed.
C18_OwnKeyOnly ==
    [][/\ last'.op \in {"role_added", "role_removed", "row_dangling",
                        "row_hierarchy", "remove_roles_call",
                        "remove_roles_failed", "send_call", "send_return"}
            => /\ OtherRows(pending_roles', last'.user, last'.guild)
                    = OtherRows(pending_roles, last'.user, last'.guild)
               /\ Cardinality(RowsOf(pending_roles', last'.user, last'.guild,
                                     ROLE_ID_TO_TRACK)) <= 1
               /\ last'.cog # 0 =>
                    <<last'.user, last'.guild, ROLE_ID_TO_TRACK>>
                        = expired[last'.cog][idx[last'.cog]]
       /\ last'.op \in {"role_other", "sweep_start", "sweep_none", "tick",
                        "on_ready", "stop", "main"}
            => pending_roles' = pending_roles
       /\ Len(pending_roles') + 2 <= Len(pending_roles)
            => last'.op = "clear" /\ last'.res = "cleared"
       /\ last'.op = "clear"
            => IF last'.res = "cleared"
               THEN pending_roles' = <<>> /\ last'.n = Len(pending_roles)
               ELSE pending_roles' = pending_roles]_vars

\* The sweeper has revoked and deleted the row of a member in one guild; the
\* row of the same user in the other guild is still in the table.
C18_Witness ==
    /\ last.op = "send_call"
    /\ last.n = 1
    /\ \E i \in 1..Len(pending_roles) :
            /\ pending_roles[i].user_id = last.user
            /\ pending_roles[i].guild_id # last.guild

\* C19: whatever member updates come in while a sweep is suspended in an
\* awaited call, the sweeper calls member.remove_roles for a key, and deletes
\* the row of a key, only when the row the table holds for that key at that
\* moment was granted HOURS_UNTIL_REMOVAL hours ago or earlier: a row that a
\* new grant has written after the sweep took its snapshot is neither revoked
\* nor deleted by that sweep.
C19_NoPrematureRevoke ==
    [][(/\ last'.cog # 0
        /\ \/ last'.op = "remove_roles_call"
           \/ pending_roles' # pending_roles)
            => \A i \in RowsOf(pending_roles, last'.user, last'.guild,
                               ROLE_ID_TO_TRACK) :
                    Due(pending_roles[i]) <= clock]_vars

\* C20: the notification "tracked role removed" that the sweeper's own
\* member.remove_roles brings about may be handled before or after the
\* sweeper's delete of the row.  Before: the observer deletes the row, the
\* sweeper's delete then finds none (rowcount 0) and the table stays as it
\* is.  After: the observer's delete finds none and the table stays as it is.
\* Either way no row is left for the key, the rows of other keys are as they
\* were, the sweeper has counted the member as processed and no error, goes
\* on to member.send, and the observer leaves the sweeper as it is.
C20_SelfInducedRemoval ==
    [][\A c \in Cogs :
        /\ (pc[c] = "await_remove" /\ last'.cog = c /\ last'.res = "ok")
            => /\ last'.op = "send_call"
               /\ pc'[c] = "await_send"
               /\ processed'[c] = processed[c] + 1
               /\ errors'[c] = errors[c]
               /\ ~HasRow(pending_roles', last'.user, last'.guild,
                          ROLE_ID_TO_TRACK)
               /\ OtherRows(pending_roles', last'.user, last'.guild)
                    = OtherRows(pending_roles, last'.user, last'.guild)
               /\ (/\ last.op = "role_removed"
                   /\ last.user = last'.user
                   /\ last.guild = last'.guild)
                    => last'.n = 0 /\ pending_roles' = pending_roles
        /\ (/\ pc[c] \in {"await_remove", "await_send"}
            /\ last'.op = "role_removed"
            /\ <<last'.user, last'.guild, ROLE_ID_TO_TRACK>>
                    = expired[c][idx[c]])
            => /\ UNCHANGED <<pc, expired, idx, processed, errors>>
               /\ ~HasRow(pending_roles', last'.user, last'.guild,
                          ROLE_ID_TO_TRACK)
               /\ OtherRows(pending_roles', last'.user, last'.guild)
                    = OtherRows(pending_roles, last'.user, last'.guild)
               /\ (/\ last.op = "send_call"
                   /\ last.cog = c)
                    => last'.n = 0 /\ pending_roles' = pending_roles]_vars

\* The observer has deleted the row while member.remove_roles was awaited;
\* the sweeper's delete has found no row, the member is counted and the row
\* of another member is still there.
C20_Witness ==
    /\ last.op = "send_call"
    /\ last.n = 0
    /\ processed[last.cog] = 1
    /\ errors[last.cog] = 0
    /\ Len(pending_roles) = 1
    /\ ~HasRow(pending_roles, last.user, last.guild, ROLE_ID_TO_TRACK)
====
